---- MODULE Spec2Model ----
(***************************************************************************)
(* The positional-encoding subsystem of GraphiT                            *)
(* (src/transformer/position_encoding_test.py): the encoder family         *)
(* (Diffusion, P-Step, Adjacency, Full, Laplacian eigenvectors), the       *)
(* one-hot edge-attribute helper and the pickle cache behind apply_to.     *)
(*                                                                         *)
(* Numbers.  Tensor entries are exact: a rational is the pair <<n, d>> in  *)
(* lowest terms; floating-point rounding is not modelled.  The matrix      *)
(* exponential and the eigenvectors have no closed rational form, so an    *)
(* entry of expm(-beta L) or of an eigenvector is an uninterpreted term    *)
(* that names its arguments (a sequence longer than two).  Only the        *)
(* Laplacian with normalization=None (L = D - A) is modelled.              *)
(***************************************************************************)
EXTENDS Integers, Sequences, FiniteSets, TLC

(* ------------------------------ bounds -------------------------------- *)
MaxEdges == 1
MaxGraphs == 2
MaxP == 3
MaxDim == 2

(* ------------------------------ numbers ------------------------------- *)
Abs(n) == IF n < 0 THEN -n ELSE n

RECURSIVE GCD(_, _)
GCD(a, b) == IF b = 0 THEN a ELSE GCD(b, a % b)

\* the rational n/d (d > 0) in lowest terms
Rat(n, d) == LET g == GCD(Abs(n), d) IN <<n \div g, d \div g>>

Zero == Rat(0, 1)
One == Rat(1, 1)

RECURSIVE Pow(_, _)
Pow(b, k) == IF k <= 0 THEN 1 ELSE b * Pow(b, k - 1)

RECURSIVE SumSeq(_)
SumSeq(s) == IF s = <<>> THEN 0 ELSE Head(s) + SumSeq(Tail(s))

RECURSIVE Prod(_)
Prod(s) == IF s = <<>> THEN 1 ELSE Head(s) * Prod(Tail(s))

RECURSIVE Concat(_)
Concat(ss) == IF ss = <<>> THEN <<>> ELSE Head(ss) \o Concat(Tail(ss))

(* ------------------------------ tensors ------------------------------- *)
\* A tensor is its shape and its entries in row-major order.
Tensor(shape, data) == [shape |-> shape, data |-> data]
NoTensor == Tensor(<<>>, <<>>)

\* the multi-index (0-based, one component per dimension) of flat position k (1-based)
RECURSIVE UnravelFrom(_, _)
UnravelFrom(shape, r) ==
    IF shape = <<>> THEN <<>>
    ELSE LET inner == Prod(Tail(shape))
         IN <<r \div inner>> \o UnravelFrom(Tail(shape), r % inner)
Unravel(shape, k) == UnravelFrom(shape, k - 1)

\* the flat position (1-based) of a multi-index
RECURSIVE RavelFrom(_, _)
RavelFrom(shape, idx) ==
    IF shape = <<>> THEN 0
    ELSE Head(idx) * Prod(Tail(shape)) + RavelFrom(Tail(shape), Tail(idx))
Ravel(shape, idx) == RavelFrom(shape, idx) + 1

At(t, idx) == t.data[Ravel(t.shape, idx)]

\* a dense n x n tensor from a matrix of values
FromMatrix(n, m) ==
    Tensor(<<n, n>>, [k \in 1..(n * n) |-> m[Unravel(<<n, n>>, k)]])

\* torch.zeros((c, n, n)) followed by pe_tensors[i] = pe_i for every channel
Stack(n, chans) ==
    Tensor(<<Len(chans), n, n>>, Concat([c \in 1..Len(chans) |-> chans[c].data]))

Channel(t, c) ==
    LET n == t.shape[2] * t.shape[3]
    IN Tensor(<<t.shape[2], t.shape[3]>>, SubSeq(t.data, c * n + 1, (c + 1) * n))

\* t.diagonal(dim1, dim2)[:] = 0, dimensions 0-based; fails when t has too few dimensions
DiagonalFill(t, dim1, dim2) ==
    IF Len(t.shape) <= dim2
    THEN [ok |-> FALSE, t |-> NoTensor]
    ELSE [ok |-> TRUE,
          t |-> Tensor(t.shape,
                  [k \in 1..Len(t.data) |->
                      LET idx == Unravel(t.shape, k)
                      IN IF idx[dim1 + 1] = idx[dim2 + 1] THEN Zero ELSE t.data[k]])]

(* ------------------------------- graphs ------------------------------- *)
\* edge_attr holds one row per edge; attr_dim = 1 is a vector of codes (each row
\* has one entry), attr_dim = 2 a matrix with the columns Columns.
Columns == {1, 2}
NodeCounts == 1..2
Codes == 0..1

GraphsOn(n) ==
    UNION {
      UNION {
        {[num_nodes |-> n, edge_index |-> e, attr_dim |-> d, edge_attr |-> a] :
            a \in [1..k -> [(IF d = 1 THEN {1} ELSE Columns) -> Codes]]}
        : e \in [1..k -> (0..(n - 1)) \X (0..(n - 1))], d \in {1, 2}}
      : k \in 0..MaxEdges}

Graphs == UNION {GraphsOn(n) : n \in NodeCounts}

(* --------------------------- Laplacian Builder ------------------------ *)
\* get_laplacian(edge_index, edge_weight, normalization=None, num_nodes) followed by
\* to_scipy_sparse_matrix(...).tocsc(): self-loops are removed, the degree of i is
\* the weight leaving i, parallel edges add up.  w[k] is the weight of edge k.
Laplacian(n, edges, w) ==
    LET Adj(i, j) == SumSeq([k \in 1..Len(edges) |->
                        IF edges[k] = <<i, j>> /\ i # j THEN w[k] ELSE 0])
        Deg(i) == SumSeq([k \in 1..Len(edges) |->
                        IF edges[k][1] = i /\ edges[k][2] # i THEN w[k] ELSE 0])
    IN [ij \in (0..(n - 1)) \X (0..(n - 1)) |->
            IF ij[1] = ij[2] THEN Deg(ij[1]) ELSE -Adj(ij[1], ij[2])]

Ones(edges) == [k \in 1..Len(edges) |-> 1]

MatMul(n, a, b) ==
    [ij \in (0..(n - 1)) \X (0..(n - 1)) |->
        SumSeq([k \in 1..n |-> a[<<ij[1], k - 1>>] * b[<<k - 1, ij[2]>>]])]

Flat(n, m) == [k \in 1..(n * n) |-> m[Unravel(<<n, n>>, k)]]

(* ------------------------------ encoders ------------------------------ *)
\* An encoder's configuration, one constructor per class.  A field a class does
\* not set keeps a default here; AdjEncoding and FullEncoding have no
\* use_edge_attr attribute (HasUseEdgeAttr) and LapEncoding no savepath.
\* num_edge_features is an int (nef_is_int, nef = <<n>>) or a list of cardinalities;
\* beta is the pair <<numerator, denominator>>.
None == "<None>"
DefaultNumEdgeFeatures == 4

PositionEncoding(kind, savepath, zero_diag) ==
    [kind |-> kind, savepath |-> savepath, zero_diag |-> zero_diag, beta |-> <<1, 1>>,
     p |-> 1, use_edge_attr |-> FALSE, nef_is_int |-> TRUE,
     nef |-> <<DefaultNumEdgeFeatures>>, dim |-> 0]

DiffusionEncoding(savepath, beta, use_edge_attr, zero_diag, nef_is_int, nef) ==
    [PositionEncoding("diffusion", savepath, zero_diag) EXCEPT
        !.beta = beta, !.use_edge_attr = use_edge_attr,
        !.nef_is_int = nef_is_int, !.nef = nef]

PStepRWEncoding(savepath, p, beta, use_edge_attr, zero_diag, nef_is_int, nef) ==
    [PositionEncoding("pstep", savepath, zero_diag) EXCEPT
        !.p = p, !.beta = beta, !.use_edge_attr = use_edge_attr,
        !.nef_is_int = nef_is_int, !.nef = nef]

AdjEncoding(savepath, zero_diag) == PositionEncoding("adj", savepath, zero_diag)

FullEncoding(savepath, zero_diag) == PositionEncoding("full", savepath, zero_diag)

LapEncoding(dim, use_edge_attr) ==
    [PositionEncoding("lap", None, FALSE) EXCEPT
        !.dim = dim, !.use_edge_attr = use_edge_attr]

HasUseEdgeAttr(enc) == enc.kind \in {"diffusion", "pstep"}

num_edge_features_true(enc) == IF enc.nef_is_int THEN enc.nef[1] ELSE SumSeq(enc.nef)

\* F.one_hot(codes, n): one row per code; fails on a code outside [0, n)
one_hot(codes, n) ==
    IF \E k \in 1..Len(codes) : codes[k] < 0 \/ codes[k] >= n
    THEN [ok |-> FALSE, rows |-> <<>>]
    ELSE [ok |-> TRUE,
          rows |-> [k \in 1..Len(codes) |->
                      [c \in 1..n |-> IF codes[k] = c - 1 THEN 1 ELSE 0]]]

\* the list branch of edge_attr_one_hot: the one-hot blocks of the columns, side by side
RECURSIVE one_hot_cols(_, _, _)
one_hot_cols(g, nef, col) ==
    IF col > Len(nef) THEN [ok |-> TRUE, rows |-> [k \in 1..Len(g.edge_attr) |-> <<>>]]
    ELSE IF g.attr_dim # 2 \/ col \notin Columns THEN [ok |-> FALSE, rows |-> <<>>]
    ELSE LET here == one_hot([k \in 1..Len(g.edge_attr) |-> g.edge_attr[k][col]], nef[col])
             rest == one_hot_cols(g, nef, col + 1)
         IN IF ~here.ok \/ ~rest.ok THEN [ok |-> FALSE, rows |-> <<>>]
            ELSE [ok |-> TRUE,
                  rows |-> [k \in 1..Len(g.edge_attr) |-> here.rows[k] \o rest.rows[k]]]

\* the int branch shifts the codes by one; a matrix of codes is not a vector of edge
\* weights per channel and is rejected downstream
edge_attr_one_hot(g, enc) ==
    IF enc.nef_is_int
    THEN IF g.attr_dim # 1 THEN [ok |-> FALSE, rows |-> <<>>]
         ELSE one_hot([k \in 1..Len(g.edge_attr) |-> g.edge_attr[k][1] - 1], enc.nef[1])
    ELSE one_hot_cols(g, enc.nef, 1)

(* ----------------------------- the kernels ---------------------------- *)
IsZeroMatrix(n, m) == \A ij \in (0..(n - 1)) \X (0..(n - 1)) : m[ij] = 0

\* expm(-beta L): the identity when beta L = 0, otherwise one uninterpreted
\* term per entry
DiffusionKernel(enc, n, edges, w) ==
    LET L == Laplacian(n, edges, w)
    IN IF enc.beta[1] = 0 \/ IsZeroMatrix(n, L)
       THEN FromMatrix(n, [ij \in (0..(n - 1)) \X (0..(n - 1)) |->
                              IF ij[1] = ij[2] THEN One ELSE Zero])
       ELSE FromMatrix(n, [ij \in (0..(n - 1)) \X (0..(n - 1)) |->
                              <<1, enc.beta[1], enc.beta[2], ij[1], ij[2]>> \o Flat(n, L)])

\* M = I - beta L over the denominator beta[2]
BaseMatrix(enc, n, L) ==
    [ij \in (0..(n - 1)) \X (0..(n - 1)) |->
        (IF ij[1] = ij[2] THEN enc.beta[2] ELSE 0) - enc.beta[1] * L[ij]]

\* for _ in range(count): tmp = tmp.dot(M); mults counts the multiplications
RECURSIVE PStepLoop(_, _, _, _, _)
PStepLoop(n, tmp, M, count, mults) ==
    IF count <= 0 THEN [tmp |-> tmp, mults |-> mults]
    ELSE PStepLoop(n, MatMul(n, tmp, M), M, count - 1, mults + 1)

\* range(self.p) for range(self.p - 1)
PStepRunOffByOne(enc, n, edges, w) ==
    LET M == BaseMatrix(enc, n, Laplacian(n, edges, w))
    IN PStepLoop(n, M, M, enc.p, 0)

PStepRun(enc, n, edges, w) ==
    LET M == BaseMatrix(enc, n, Laplacian(n, edges, w))
    IN PStepLoop(n, M, M, enc.p - 1, 0)

PStepKernel(enc, n, edges, w) ==
    LET r == PStepRun(enc, n, edges, w)
        den == Pow(enc.beta[2], r.mults + 1)
    IN FromMatrix(n, [ij \in (0..(n - 1)) \X (0..(n - 1)) |-> Rat(r.tmp[ij], den)])

compute_pe_from_edge_weight(enc, n, edges, w) ==
    IF enc.kind = "diffusion" THEN DiffusionKernel(enc, n, edges, w)
    ELSE PStepKernel(enc, n, edges, w)

\* compute_pe of DiffusionEncoding and PStepRWEncoding
KernelEncoding(enc, g) ==
    IF enc.use_edge_attr
    THEN LET oh == edge_attr_one_hot(g, enc)
         IN IF ~oh.ok THEN [ok |-> FALSE, t |-> NoTensor]
            ELSE [ok |-> TRUE,
                  t |-> Stack(g.num_nodes,
                          [i \in 1..num_edge_features_true(enc) |->
                              compute_pe_from_edge_weight(enc, g.num_nodes, g.edge_index,
                                  [k \in 1..Len(g.edge_index) |-> oh.rows[k][i]])])]
    ELSE [ok |-> TRUE,
          t |-> compute_pe_from_edge_weight(enc, g.num_nodes, g.edge_index,
                                            Ones(g.edge_index))]

\* to_dense_adj(edge_index): one batch entry, as many nodes as the largest index
\* names, parallel edges counted.  On an empty edge_index the library either
\* fails (edge_index.max() of nothing) or returns an empty matrix, by its version.
MaxIndex(edges) ==
    LET S == {edges[k][1] : k \in 1..Len(edges)} \cup {edges[k][2] : k \in 1..Len(edges)}
    IN CHOOSE m \in S : \A x \in S : x <= m

AdjEncodingPe(g, empty_raises) ==
    IF g.edge_index = <<>>
    THEN IF empty_raises THEN [ok |-> FALSE, t |-> NoTensor]
         ELSE [ok |-> TRUE, t |-> Tensor(<<1, 0, 0>>, <<>>)]
    ELSE LET n == MaxIndex(g.edge_index) + 1
             Count(i, j) == SumSeq([k \in 1..Len(g.edge_index) |->
                                IF g.edge_index[k] = <<i, j>> THEN 1 ELSE 0])
         IN [ok |-> TRUE,
             t |-> Tensor(<<1, n, n>>,
                     [k \in 1..(n * n) |->
                         LET ij == Unravel(<<n, n>>, k) IN Rat(Count(ij[1], ij[2]), 1)])]

FullEncodingPe(g) ==
    [ok |-> TRUE,
     t |-> Tensor(<<g.num_nodes, g.num_nodes>>,
                  [k \in 1..(g.num_nodes * g.num_nodes) |-> One])]


\* LapEncoding.compute_pe: the eigenvectors sorted by eigenvalue, columns
\* 1:dim+1 of them (a slice stops at the last column there is).  An entry is the
\* term <<2, rank, row>> \o L, rank counted from 1 in ascending eigenvalue.
SliceStop(stop, n) == IF stop > n THEN n ELSE stop

LapEncodingPe(dim, use_edge_attr, g) ==
    IF use_edge_attr /\ g.attr_dim # 1 THEN [ok |-> FALSE, t |-> NoTensor]
    ELSE LET n == g.num_nodes
             w == IF use_edge_attr THEN [k \in 1..Len(g.edge_attr) |-> g.edge_attr[k][1]]
                  ELSE Ones(g.edge_index)
             L == Laplacian(n, g.edge_index, w)
             stop == SliceStop(dim + 1, n)
             cols == IF stop > 1 THEN stop - 1 ELSE 0
         IN [ok |-> TRUE,
             t |-> Tensor(<<n, cols>>,
                     [k \in 1..(n * cols) |->
                         LET rc == Unravel(<<n, cols>>, k)
                         IN <<2, rc[2] + 2, rc[1]>> \o Flat(n, L)])]

\* compute_pe of the encoder's class
compute_pe(enc, g, empty_raises) ==
    IF enc.kind \in {"diffusion", "pstep"} THEN KernelEncoding(enc, g)
    ELSE IF enc.kind = "adj" THEN AdjEncodingPe(g, empty_raises)
    ELSE IF enc.kind = "full" THEN FullEncodingPe(g)
    ELSE LapEncodingPe(enc.dim, enc.use_edge_attr, g)

(* ------------------------------- pickle ------------------------------- *)
\* The cache blob is a stream of integers: the list's length, then per tensor its
\* number of dimensions, its shape and its entries, each entry behind its length.
\* the entries written last to first
DumpTensorReversed(t) ==
    <<Len(t.shape)>> \o t.shape
        \o Concat([k \in 1..Len(t.data) |->
                    <<Len(t.data[Len(t.data) + 1 - k])>> \o t.data[Len(t.data) + 1 - k]])

DumpTensor(t) ==
    <<Len(t.shape)>> \o t.shape
        \o Concat([k \in 1..Len(t.data) |-> <<Len(t.data[k])>> \o t.data[k]])

Dumps(list) == <<Len(list)>> \o Concat([i \in 1..Len(list) |-> DumpTensor(list[i])])

ParseFail == [ok |-> FALSE, value |-> <<>>, pos |-> 0]

\* count integers of b from position pos
ParseInts(b, pos, count) ==
    IF count < 0 \/ pos + count - 1 > Len(b) THEN ParseFail
    ELSE [ok |-> TRUE, value |-> SubSeq(b, pos, pos + count - 1), pos |-> pos + count]

RECURSIVE ParseEntries(_, _, _, _)
ParseEntries(b, pos, count, acc) ==
    IF count = 0 THEN [ok |-> TRUE, value |-> acc, pos |-> pos]
    ELSE IF pos > Len(b) THEN ParseFail
    ELSE LET v == ParseInts(b, pos + 1, b[pos])
         IN IF ~v.ok THEN ParseFail
            ELSE ParseEntries(b, v.pos, count - 1, Append(acc, v.value))

ParseTensor(b, pos) ==
    IF pos > Len(b) THEN ParseFail
    ELSE LET shape == ParseInts(b, pos + 1, b[pos])
         IN IF ~shape.ok \/ (\E d \in 1..Len(shape.value) : shape.value[d] < 0)
            THEN ParseFail
            ELSE LET data == ParseEntries(b, shape.pos, Prod(shape.value), <<>>)
                 IN IF ~data.ok THEN ParseFail
                    ELSE [ok |-> TRUE, value |-> Tensor(shape.value, data.value),
                          pos |-> data.pos]

RECURSIVE ParseList(_, _, _, _)
ParseList(b, pos, count, acc) ==
    IF count = 0 THEN [ok |-> TRUE, value |-> acc, pos |-> pos]
    ELSE LET t == ParseTensor(b, pos)
         IN IF ~t.ok THEN ParseFail
            ELSE ParseList(b, t.pos, count - 1, Append(acc, t.value))

\* pickle.load: fails on a stream that ends early or holds anything else
Loads(b) ==
    IF b = <<>> \/ b[1] < 0 THEN ParseFail
    ELSE LET r == ParseList(b, 2, b[1], <<>>)
         IN IF r.ok /\ r.pos = Len(b) + 1 THEN r ELSE ParseFail

(* ----------------------------- cache layer ---------------------------- *)
Absent == [exists |-> FALSE, bytes |-> <<>>]

\* one file for every split
PathOfShared(savepath, split) == <<savepath, "train">>

\* self.savepath + "." + split
PathOf(savepath, split) == <<savepath, split>>

\* a file that does not unpickle taken for no file
loadFallback(enc, split, fs) ==
    IF enc.savepath = None THEN [ok |-> TRUE, none |-> TRUE, list |-> <<>>]
    ELSE IF ~fs[PathOf(enc.savepath, split)].exists
    THEN [ok |-> TRUE, none |-> TRUE, list |-> <<>>]
    ELSE LET r == Loads(fs[PathOf(enc.savepath, split)].bytes)
         IN IF r.ok THEN [ok |-> TRUE, none |-> FALSE, list |-> r.value]
            ELSE [ok |-> TRUE, none |-> TRUE, list |-> <<>>]

\* PositionEncoding.load: None without a savepath or a file; a file that does not
\* unpickle raises
load(enc, split, fs) ==
    IF enc.savepath = None THEN [ok |-> TRUE, none |-> TRUE, list |-> <<>>]
    ELSE IF ~fs[PathOf(enc.savepath, split)].exists
    THEN [ok |-> TRUE, none |-> TRUE, list |-> <<>>]
    ELSE LET r == Loads(fs[PathOf(enc.savepath, split)].bytes)
         IN IF r.ok THEN [ok |-> TRUE, none |-> FALSE, list |-> r.value]
            ELSE [ok |-> FALSE, none |-> FALSE, list |-> <<>>]

\* the write without the os.path.isfile test
saveOverwrite(enc, pos_enc, split, fs) ==
    IF enc.savepath = None THEN fs
    ELSE [fs EXCEPT ![PathOf(enc.savepath, split)] =
                        [exists |-> TRUE, bytes |-> Dumps(pos_enc)]]

\* PositionEncoding.save: writes only where no file is
save(enc, pos_enc, split, fs) ==
    IF enc.savepath = None THEN fs
    ELSE IF ~fs[PathOf(enc.savepath, split)].exists
    THEN [fs EXCEPT ![PathOf(enc.savepath, split)] =
                        [exists |-> TRUE, bytes |-> Dumps(pos_enc)]]
    ELSE fs

\* the zero_diag branch of the loop body
ZeroDiag(enc, pe) ==
    IF HasUseEdgeAttr(enc) /\ enc.use_edge_attr THEN DiagonalFill(pe, 1, 2)
    ELSE DiagonalFill(pe, 0, 1)

\* the mask written into pe itself, without pe.clone()
LoopBodyInPlace(enc, pe) ==
    IF enc.zero_diag
    THEN LET z == ZeroDiag(enc, pe) IN [ok |-> z.ok, kept |-> z.t, listed |-> z.t]
    ELSE [ok |-> TRUE, kept |-> pe, listed |-> pe]

\* what one iteration leaves of pe: kept is the tensor all_pe (or the loaded list)
\* still holds, listed the one appended to dataset.pe_list; pe.clone() keeps the
\* mask off the former
LoopBody(enc, pe) ==
    IF enc.zero_diag
    THEN LET z == ZeroDiag(enc, pe) IN [ok |-> z.ok, kept |-> pe, listed |-> z.t]
    ELSE [ok |-> TRUE, kept |-> pe, listed |-> pe]

\* is the loaded value taken for a cache miss
IsMiss(saved) == saved.none

\* for i, g in enumerate(dataset): an exception ends the loop where it is raised
RECURSIVE ApplyLoop(_, _, _, _, _)
ApplyLoop(enc, graphs, saved, empty_raises, acc) ==
    LET i == acc.i IN
    IF i > Len(graphs) THEN acc
    ELSE IF IsMiss(saved)
    THEN LET r == compute_pe(enc, graphs[i], empty_raises)
         IN IF ~r.ok THEN [acc EXCEPT !.ok = FALSE, !.computed = @ + 1]
            ELSE LET b == LoopBody(enc, r.t)
                 IN IF ~b.ok
                    THEN [acc EXCEPT !.ok = FALSE, !.computed = @ + 1,
                                     !.all_pe = Append(@, r.t)]
                    ELSE ApplyLoop(enc, graphs, saved, empty_raises,
                            [acc EXCEPT !.i = i + 1, !.computed = @ + 1,
                                        !.all_pe = Append(@, b.kept),
                                        !.pe_list = Append(@, b.listed)])
    ELSE IF i > Len(saved.list) THEN [acc EXCEPT !.ok = FALSE]
    ELSE LET b == LoopBody(enc, saved.list[i])
         IN IF ~b.ok THEN [acc EXCEPT !.ok = FALSE]
            ELSE ApplyLoop(enc, graphs, saved, empty_raises,
                    [acc EXCEPT !.i = i + 1, !.pe_list = Append(@, b.listed)])

\* the loop appending to the pe_list the dataset object came with
apply_toExtend(enc, ds, split, fs, empty_raises) ==
    LET saved == load(enc, split, fs)
    IN IF ~saved.ok THEN [ok |-> FALSE, ds |-> ds, fs |-> fs, computed |-> 0]
       ELSE LET r == ApplyLoop(enc, ds.graphs, saved, empty_raises,
                        [ok |-> TRUE, i |-> 1, all_pe |-> <<>>, pe_list |-> ds.pe_list,
                         computed |-> 0])
                after == [ds EXCEPT !.has_pe = TRUE, !.pe_list = r.pe_list]
            IN IF ~r.ok THEN [ok |-> FALSE, ds |-> after, fs |-> fs, computed |-> r.computed]
               ELSE [ok |-> TRUE, ds |-> after, fs |-> save(enc, r.all_pe, split, fs),
                     computed |-> r.computed]

\* PositionEncoding.apply_to(dataset, split) on a dataset object ds and the files fs:
\* the dataset and the files after the call, whether it returned normally, and how
\* often compute_pe was called
apply_to(enc, ds, split, fs, empty_raises) ==
    LET saved == load(enc, split, fs)
    IN IF ~saved.ok THEN [ok |-> FALSE, ds |-> ds, fs |-> fs, computed |-> 0]
       ELSE LET r == ApplyLoop(enc, ds.graphs, saved, empty_raises,
                        [ok |-> TRUE, i |-> 1, all_pe |-> <<>>, pe_list |-> <<>>,
                         computed |-> 0])
                after == [ds EXCEPT !.has_pe = TRUE, !.pe_list = r.pe_list]
            IN IF ~r.ok THEN [ok |-> FALSE, ds |-> after, fs |-> fs, computed |-> r.computed]
               ELSE [ok |-> TRUE, ds |-> after, fs |-> save(enc, r.all_pe, split, fs),
                     computed |-> r.computed]

(* ------------------------------- state -------------------------------- *)
VARIABLES
    files,          \* the cache files: path -> [exists, bytes]
    dataset,        \* the dataset object: its graphs and its pe_list attribute
    last,           \* the last operation on the cache and what it found
    wrote,          \* per path, the apply_to call that wrote the file there
    empty_raises,   \* does this to_dense_adj fail on an empty edge_index
    pe,             \* one compute_pe call: encoder, graph and result
    procs           \* the processes inside apply_to: where each stands and its locals

vars == <<files, dataset, last, wrote, empty_raises, pe, procs>>

\* the processes that may run apply_to side by side
Procs == {1, 2}

Splits == {"train"}
SavePath == "pe.pkl"
Paths == {PathOf(SavePath, s) : s \in Splits}

\* the graphs of the cached datasets: an edge 0 -> 1 and a self-loop on node 1,
\* each with a row of edge codes
EdgeGraph ==
    [num_nodes |-> 2, edge_index |-> <<<<0, 1>>>>, attr_dim |-> 2,
     edge_attr |-> <<<<0, 1>>>>]
LoopGraph ==
    [num_nodes |-> 2, edge_index |-> <<<<1, 1>>>>, attr_dim |-> 2,
     edge_attr |-> <<<<1, 0>>>>]
Pool == <<EdgeGraph, LoopGraph>>
\* the datasets: up to MaxGraphs graphs, the two taken in turn from either one
Datasets ==
    {[i \in 1..k |-> Pool[((i + first) % 2) + 1]] : first \in {0, 1}, k \in 0..MaxGraphs}

Cards == [Columns -> 1..2]
PoolCards == <<2, 2>>

\* the encoders of the cache runs: every caching class, single-channel
\* (Diffusion) and multi-channel (P-Step), and the one encoder the training
\* script builds without a savepath
CacheEncoders ==
    UNION {
      {DiffusionEncoding(SavePath, <<1, 1>>, FALSE, zd, FALSE, PoolCards),
       PStepRWEncoding(SavePath, 1, <<1, 2>>, TRUE, zd, FALSE, PoolCards),
       AdjEncoding(SavePath, zd), FullEncoding(SavePath, zd), FullEncoding(None, zd)}
      : zd \in BOOLEAN}

NewObject(graphs) == [graphs |-> graphs, has_pe |-> FALSE, pe_list |-> <<>>]

Idle ==
    [op |-> "none", enc |-> FullEncoding(None, FALSE), split |-> "train", ok |-> TRUE,
     computed |-> 0, pre_file |-> Absent]

NoCall ==
    [done |-> FALSE, enc |-> FullEncoding(None, FALSE), graph |-> EdgeGraph,
     ok |-> TRUE, t |-> NoTensor, mults |-> 0]

NoWriter ==
    [written |-> FALSE, enc |-> FullEncoding(None, FALSE), graphs |-> <<>>,
     pe_list |-> <<>>]

\* a process that has not called apply_to
IdleProc ==
    [pc |-> "idle", enc |-> FullEncoding(None, FALSE), split |-> "train",
     graphs |-> <<>>, saved |-> [ok |-> TRUE, none |-> TRUE, list |-> <<>>],
     all_pe |-> <<>>, pe_list |-> <<>>, wrote |-> FALSE]

Init ==
    /\ files = [q \in Paths |-> Absent]
    /\ dataset \in {NewObject(d) : d \in Datasets}
    /\ last = Idle
    /\ wrote = [q \in Paths |-> NoWriter]
    /\ empty_raises \in BOOLEAN
    /\ pe = NoCall
    /\ procs = [p \in Procs |-> IdleProc]

\* the caller builds a new dataset object
NewDataset ==
    /\ \E d \in Datasets : dataset' = NewObject(d)
    /\ last' = [Idle EXCEPT !.op = "new_dataset"]
    /\ UNCHANGED <<files, wrote, empty_raises, pe, procs>>

\* pos_encoder.apply_to(dataset, split)
ApplyTo ==
    \E enc \in CacheEncoders, split \in Splits :
        \E r \in {apply_to(enc, dataset, split, files, empty_raises)} :
           /\ dataset' = r.ds
           /\ files' = r.fs
           /\ last' = [op |-> "apply_to", enc |-> enc, split |-> split, ok |-> r.ok,
                       computed |-> r.computed,
                       pre_file |-> IF enc.savepath = None THEN Absent
                                    ELSE files[PathOf(enc.savepath, split)]]
           /\ wrote' = IF r.fs = files THEN wrote
                       ELSE [wrote EXCEPT ![PathOf(enc.savepath, split)] =
                                [written |-> TRUE, enc |-> enc, graphs |-> dataset.graphs,
                                 pe_list |-> r.ds.pe_list]]
           /\ UNCHANGED <<empty_raises, pe, procs>>

\* a cache file loses its tail (a write that was cut short, a damaged disk)
Truncate ==
    /\ \E q \in Paths :
        /\ files[q].exists
        /\ Loads(files[q].bytes).ok
        /\ files' = [files EXCEPT ![q].bytes = SubSeq(@, 1, Len(@) - 1)]
    /\ last' = [Idle EXCEPT !.op = "truncate"]
    /\ UNCHANGED <<dataset, wrote, empty_raises, pe, procs>>

Next == NewDataset \/ ApplyTo \/ Truncate

Spec == Init /\ [][Next]_vars

(* ------------------- compute_pe on its own: SpecPE -------------------- *)
Betas == {<<0, 1>>, <<1, 2>>, <<1, 1>>}
MinP == 0 - 1

\* num_edge_features: an int or a list with one cardinality per column
Nefs ==
    {<<TRUE, <<n>>>> : n \in {1, 2, DefaultNumEdgeFeatures}}
        \cup {<<FALSE, c>> : c \in Cards}

PEEncoders ==
    {DiffusionEncoding(None, b, FALSE, FALSE, TRUE, <<DefaultNumEdgeFeatures>>) : b \in Betas}
    \cup {DiffusionEncoding(None, b, TRUE, FALSE, nf[1], nf[2]) : b \in Betas, nf \in Nefs}
    \cup {PStepRWEncoding(None, p, b, FALSE, FALSE, TRUE, <<DefaultNumEdgeFeatures>>) :
            p \in MinP..MaxP, b \in Betas}
    \cup {PStepRWEncoding(None, p, b, TRUE, FALSE, nf[1], nf[2]) :
            p \in MinP..MaxP, b \in Betas, nf \in Nefs}
    \cup {AdjEncoding(None, FALSE), FullEncoding(None, FALSE)}
    \cup {LapEncoding(d, uea) : d \in 1..MaxDim, uea \in BOOLEAN}

\* edge_attr is read only under use_edge_attr: without it one layout stands for all
ReadsEdgeAttr(enc, g) ==
    enc.use_edge_attr
        \/ (g.attr_dim = 1 /\ \A k \in 1..Len(g.edge_attr) : g.edge_attr[k][1] = 0)

InitPE ==
    /\ files = [q \in Paths |-> Absent]
    /\ dataset = NewObject(<<>>)
    /\ last = Idle
    /\ wrote = [q \in Paths |-> NoWriter]
    /\ procs = [p \in Procs |-> IdleProc]
    /\ \E enc \in PEEncoders, g \in Graphs :
          /\ ReadsEdgeAttr(enc, g)
          /\ pe = [NoCall EXCEPT !.enc = enc, !.graph = g]
          /\ empty_raises \in (IF enc.kind = "adj" THEN BOOLEAN ELSE {FALSE})

\* encoder.compute_pe(graph)
ComputePe ==
    /\ ~pe.done
    /\ LET r == compute_pe(pe.enc, pe.graph, empty_raises)
       IN pe' = [pe EXCEPT !.done = TRUE, !.ok = r.ok, !.t = r.t,
                    !.mults = IF pe.enc.kind = "pstep"
                              THEN PStepRun(pe.enc, pe.graph.num_nodes, pe.graph.edge_index,
                                            Ones(pe.graph.edge_index)).mults
                              ELSE 0]
    /\ UNCHANGED <<files, dataset, last, wrote, empty_raises, procs>>

NextPE == ComputePe

SpecPE == InitPE /\ [][NextPE]_vars

(* ------------- apply_to run by two processes: SpecRace ---------------- *)
\* the encoders of the racing calls; the mask does not reach the file
RaceEncoders == {e \in CacheEncoders : ~e.zero_diag}

InitRace ==
    /\ files = [q \in Paths |-> Absent]
    /\ dataset = NewObject(<<>>)
    /\ last = Idle
    /\ wrote = [q \in Paths |-> NoWriter]
    /\ empty_raises = FALSE
    /\ pe = NoCall
    /\ procs = [p \in Procs |-> IdleProc]

\* process p enters apply_to(dataset, split) with its own dataset object
RaceCall(p) ==
    /\ procs[p].pc = "idle"
    /\ \E enc \in RaceEncoders, split \in Splits, d \in Datasets :
          procs' = [procs EXCEPT ![p] =
                        [IdleProc EXCEPT !.pc = "load", !.enc = enc, !.split = split,
                                         !.graphs = d]]
    /\ UNCHANGED <<files, dataset, last, wrote, empty_raises, pe>>

\* saved_pos_enc = self.load(split): a file that does not unpickle raises
RaceLoad(p) ==
    /\ procs[p].pc = "load"
    /\ \E saved \in {load(procs[p].enc, procs[p].split, files)} :
          procs' = [procs EXCEPT ![p].saved = saved,
                                 ![p].pc = IF saved.ok THEN "loop" ELSE "raised"]
    /\ UNCHANGED <<files, dataset, last, wrote, empty_raises, pe>>

\* the loop over the dataset: it touches the process's own objects only
RaceLoop(p) ==
    /\ procs[p].pc = "loop"
    /\ \E r \in {ApplyLoop(procs[p].enc, procs[p].graphs, procs[p].saved, empty_raises,
                            [ok |-> TRUE, i |-> 1, all_pe |-> <<>>, pe_list |-> <<>>,
                             computed |-> 0])} :
          procs' = [procs EXCEPT ![p].all_pe = r.all_pe,
                                 ![p].pe_list = r.pe_list,
                                 ![p].pc = IF r.ok THEN "isfile" ELSE "raised"]
    /\ UNCHANGED <<files, dataset, last, wrote, empty_raises, pe>>

\* save: the savepath test and os.path.isfile, before the file is opened
RaceIsFile(p) ==
    /\ procs[p].pc = "isfile"
    /\ procs' = [procs EXCEPT ![p].pc =
                    IF procs[p].enc.savepath = None THEN "done"
                    ELSE IF files[PathOf(procs[p].enc.savepath, procs[p].split)].exists
                    THEN "done"
                    ELSE "open"]
    /\ UNCHANGED <<files, dataset, last, wrote, empty_raises, pe>>

\* open(path, 'wb'): the file is created, or cut to no bytes if it is there
RaceOpen(p) ==
    /\ procs[p].pc = "open"
    /\ files' = [files EXCEPT ![PathOf(procs[p].enc.savepath, procs[p].split)] =
                                [exists |-> TRUE, bytes |-> <<>>]]
    /\ procs' = [procs EXCEPT ![p].pc = "dump"]
    /\ UNCHANGED <<dataset, last, wrote, empty_raises, pe>>

\* pickle.dump and the close of the handle: the bytes go in from offset 0 of the
\* process's own handle, over whatever the file holds by then
RaceDump(p) ==
    /\ procs[p].pc = "dump"
    /\ \E b \in {Dumps(procs[p].all_pe)},
          q \in {PathOf(procs[p].enc.savepath, procs[p].split)} :
          files' = [files EXCEPT ![q].bytes = b \o SubSeq(@, Len(b) + 1, Len(@))]
    /\ procs' = [procs EXCEPT ![p].pc = "done", ![p].wrote = TRUE]
    /\ UNCHANGED <<dataset, last, wrote, empty_raises, pe>>

NextRace ==
    \E p \in Procs :
        \/ RaceCall(p)
        \/ RaceLoad(p)
        \/ RaceLoop(p)
        \/ RaceIsFile(p)
        \/ RaceOpen(p)
        \/ RaceDump(p)

SpecRace == InitRace /\ [][NextRace]_vars

(* ============================ the claims ============================== *)
Called == last.op = "apply_to"
CallPath == PathOf(last.enc.savepath, last.split)
\* the call found a file at its path
Cached == Called /\ last.enc.savepath # None /\ last.pre_file.exists
\* the call had a savepath and found no file
Missed == Called /\ last.enc.savepath # None /\ ~last.pre_file.exists
\* the list the file held when the call began
PreList == Loads(last.pre_file.bytes)
\* the encoder's own encodings of the dataset's graphs
OwnList == [i \in 1..Len(dataset.graphs) |->
                compute_pe(last.enc, dataset.graphs[i], empty_raises).t]
\* the mask the code applies under zero_diag
Masked(enc, t) == IF enc.zero_diag THEN ZeroDiag(enc, t).t ELSE t
\* the diagonal of a matrix, or of every channel, set to 0: entries whose last
\* two indices agree
DiagonalZeroed(t) ==
    Tensor(t.shape,
        [k \in 1..Len(t.data) |->
            LET idx == Unravel(t.shape, k)
            IN IF idx[Len(idx)] = idx[Len(idx) - 1] THEN Zero ELSE t.data[k]])

\* C1: a call that finds a file at {savepath}.{split} leaves the file as it was,
\* never calls compute_pe, and every entry of pe_list is the file's entry at that
\* index (masked under zero_diag); a normal return fills one entry per graph.
CacheNoOverwrite ==
    Cached =>
        /\ files[CallPath] = last.pre_file
        /\ last.computed = 0
        /\ PreList.ok =>
            /\ Len(dataset.pe_list) <= Len(PreList.value)
            /\ \A i \in 1..Len(dataset.pe_list) :
                    dataset.pe_list[i] = Masked(last.enc, PreList.value[i])
            /\ last.ok => Len(dataset.pe_list) = Len(dataset.graphs)

\* a call of another class than the file's writer returned the writer's encodings
CacheNoOverwriteWitness ==
    /\ Cached /\ last.ok /\ PreList.ok
    /\ dataset.pe_list # <<>>
    /\ wrote[CallPath].enc.kind # last.enc.kind
    /\ \E i \in 1..Len(dataset.pe_list) :
            dataset.pe_list[i] # Masked(last.enc, OwnList[i])

\* the second of two calls with one configuration on one dataset
SecondCall ==
    /\ Cached /\ last.ok
    /\ wrote[CallPath].written
    /\ wrote[CallPath].enc = last.enc
    /\ wrote[CallPath].graphs = dataset.graphs

\* C2: after a first call wrote the file, a second call with the same
\* configuration on the same dataset yields the first call's pe_list, entry for
\* entry, without calling compute_pe.
CacheRoundTrip ==
    SecondCall =>
        /\ dataset.pe_list = wrote[CallPath].pe_list
        /\ last.computed = 0

CacheRoundTripWitness ==
    /\ SecondCall
    /\ last.enc.zero_diag
    /\ Len(dataset.pe_list) = MaxGraphs
    /\ dataset.pe_list[1] # dataset.pe_list[2]

\* the call computed, or read what an encoder of its own class had written
OwnValues ==
    /\ Called /\ last.ok
    /\ Cached => /\ wrote[CallPath].written
                 /\ wrote[CallPath].enc.kind = last.enc.kind
                 /\ wrote[CallPath].enc.use_edge_attr = last.enc.use_edge_attr
Unmasked == IF Cached THEN PreList.value ELSE OwnList

\* C3: under zero_diag every pe_list entry is the unmasked encoding with its
\* diagonal (every channel's diagonal) set to 0 and all else kept; without
\* zero_diag it is the unmasked encoding.
ZeroDiagonalMask ==
    OwnValues =>
        \A i \in 1..Len(dataset.graphs) :
            dataset.pe_list[i] = IF last.enc.zero_diag THEN DiagonalZeroed(Unmasked[i])
                                 ELSE Unmasked[i]

\* C4: a miss with a savepath writes compute_pe's output unmasked, and a later
\* call with the opposite zero_diag on that file yields the pe_list it would
\* compute with no file.
CachedPreMasking ==
    /\ (Missed /\ last.ok) =>
            /\ files[CallPath].exists
            /\ Loads(files[CallPath].bytes).ok
            /\ Loads(files[CallPath].bytes).value = OwnList
    /\ (/\ Cached /\ last.ok
        /\ wrote[CallPath].written
        /\ wrote[CallPath].enc = [last.enc EXCEPT !.zero_diag = ~@]
        /\ wrote[CallPath].graphs = dataset.graphs) =>
            dataset.pe_list =
                apply_to(last.enc, NewObject(dataset.graphs), last.split,
                         [q \in Paths |-> Absent], empty_raises).ds.pe_list

\* an unmasking call read the file a masking call wrote
CachedPreMaskingWitness ==
    /\ Cached /\ last.ok
    /\ wrote[CallPath].written
    /\ wrote[CallPath].enc = [last.enc EXCEPT !.zero_diag = ~@]
    /\ wrote[CallPath].graphs = dataset.graphs
    /\ ~last.enc.zero_diag
    /\ dataset.pe_list # <<>>
    /\ dataset.pe_list # wrote[CallPath].pe_list

\* C5: with no file, or a file holding the empty list, the call computes one
\* encoding per graph and returns normally with them.
EmptyCacheRecomputes ==
    (Missed \/ (Cached /\ PreList.ok /\ PreList.value = <<>>)) =>
        /\ last.ok
        /\ last.computed = Len(dataset.graphs)
        /\ dataset.pe_list =
                [i \in 1..Len(dataset.graphs) |-> Masked(last.enc, OwnList[i])]

\* C10: a call that finds a file that does not unpickle fails without computing
\* and leaves the file and the dataset, pe_list included, as they were.
CorruptCachePropagates ==
    [][(/\ last'.op = "apply_to"
        /\ last'.enc.savepath # None
        /\ last'.pre_file.exists
        /\ ~Loads(last'.pre_file.bytes).ok) =>
            /\ ~last'.ok
            /\ last'.computed = 0
            /\ files' = files
            /\ dataset' = dataset]_vars

\* the failed call left an earlier call's pe_list on the dataset
CorruptCacheWitness ==
    /\ Cached /\ ~PreList.ok
    /\ dataset.has_pe
    /\ dataset.pe_list # <<>>
    /\ last.pre_file.bytes # <<>>

(* ------------------------ compute_pe's claims ------------------------- *)
RatMul(a, b) == Rat(a[1] * b[1], a[2] * b[2])
RatAdd(a, b) == Rat(a[1] * b[2] + b[1] * a[2], a[2] * b[2])

RECURSIVE RatSum(_)
RatSum(s) == IF s = <<>> THEN Zero ELSE RatAdd(Head(s), RatSum(Tail(s)))

\* the product of two n x n tensors of rationals
RatMatMul(n, a, b) ==
    Tensor(<<n, n>>,
        [k \in 1..(n * n) |->
            LET ij == Unravel(<<n, n>>, k)
            IN RatSum([m \in 1..n |->
                    RatMul(At(a, <<ij[1], m - 1>>), At(b, <<m - 1, ij[2]>>))])])

\* the n x n matrices of an encoding: itself, or its channels
Slices(t) ==
    IF Len(t.shape) = 2 THEN <<t>>
    ELSE [c \in 1..t.shape[1] |-> Channel(t, c - 1)]

\* the edge weights behind each matrix of the call's encoding
SliceWeights ==
    IF pe.enc.use_edge_attr
    THEN LET oh == edge_attr_one_hot(pe.graph, pe.enc)
         IN [c \in 1..num_edge_features_true(pe.enc) |->
                [k \in 1..Len(pe.graph.edge_index) |-> oh.rows[k][c]]]
    ELSE <<Ones(pe.graph.edge_index)>>

\* I - beta L, entry by entry
StepMatrix(w) ==
    LET n == pe.graph.num_nodes
        L == Laplacian(n, pe.graph.edge_index, w)
    IN Tensor(<<n, n>>,
        [k \in 1..(n * n) |->
            LET ij == Unravel(<<n, n>>, k)
            IN RatAdd(IF ij[1] = ij[2] THEN One ELSE Zero,
                      RatMul(Rat(0 - pe.enc.beta[1], pe.enc.beta[2]), Rat(L[ij], 1)))])

PStepDone == pe.done /\ pe.ok /\ pe.enc.kind = "pstep" /\ pe.enc.p >= 1

\* C9: with M = I - beta L, p = 1 yields M with no multiplication, and p = k + 1
\* yields the result of p = k times M, with p - 1 multiplications in all.
PStepRecurrence ==
    PStepDone =>
        /\ pe.mults = pe.enc.p - 1
        /\ Len(Slices(pe.t)) = Len(SliceWeights)
        /\ \A c \in 1..Len(SliceWeights) :
            IF pe.enc.p = 1 THEN Slices(pe.t)[c] = StepMatrix(SliceWeights[c])
            ELSE Slices(pe.t)[c] =
                    RatMatMul(pe.graph.num_nodes,
                        Slices(compute_pe([pe.enc EXCEPT !.p = @ - 1], pe.graph,
                                          empty_raises).t)[c],
                        StepMatrix(SliceWeights[c]))

PStepRecurrenceWitness ==
    /\ PStepDone
    /\ pe.enc.p = MaxP
    /\ pe.enc.beta = <<1, 2>>
    /\ pe.t # compute_pe([pe.enc EXCEPT !.p = @ - 1], pe.graph, empty_raises).t
    /\ pe.t # compute_pe([pe.enc EXCEPT !.p = 1], pe.graph, empty_raises).t

\* C6: a P-Step encoder with p <= 0 yields no encoding: compute_pe fails.
NonPositivePRejected ==
    (pe.done /\ pe.enc.kind = "pstep" /\ pe.enc.p <= 0) => ~pe.ok

\* C7: LapEncoding fails when dim + 1 exceeds num_nodes, and a result has dim
\* columns, the eigenvectors ranked 2..dim+1.
InsufficientEigenvectors ==
    (pe.done /\ pe.enc.kind = "lap"
        /\ (pe.enc.use_edge_attr => pe.graph.attr_dim = 1)) =>
        /\ pe.enc.dim + 1 > pe.graph.num_nodes => ~pe.ok
        /\ pe.ok =>
            /\ pe.t.shape = <<pe.graph.num_nodes, pe.enc.dim>>
            /\ \A k \in 1..Len(pe.t.data) :
                    pe.t.data[k][2] = Unravel(pe.t.shape, k)[2] + 2

\* the cardinality of every column, and the codes of the graph within them
Cardinalities == pe.enc.nef
CodesInRange ==
    /\ pe.graph.attr_dim = (IF pe.enc.nef_is_int THEN 1 ELSE 2)
    /\ ~pe.enc.nef_is_int => DOMAIN pe.enc.nef = Columns
    /\ \A k \in 1..Len(pe.graph.edge_attr), j \in 1..Len(Cardinalities) :
            pe.graph.edge_attr[k][j] \in 0..(Cardinalities[j] - 1)

\* C8: the encoding has one channel per code of every column, and the channel of
\* code c of column j is the encoding with weight 1 on the edges whose column-j
\* code is c and 0 elsewhere.
MultiChannelOneHot ==
    (/\ pe.done
     /\ pe.enc.kind \in {"diffusion", "pstep"}
     /\ pe.enc.use_edge_attr
     /\ CodesInRange) =>
        /\ pe.ok
        /\ pe.t.shape = <<SumSeq(Cardinalities), pe.graph.num_nodes, pe.graph.num_nodes>>
        /\ \A j \in 1..Len(Cardinalities) :
            \A c \in 0..(Cardinalities[j] - 1) :
                Channel(pe.t, SumSeq(SubSeq(Cardinalities, 1, j - 1)) + c) =
                    compute_pe_from_edge_weight(pe.enc, pe.graph.num_nodes,
                        pe.graph.edge_index,
                        [k \in 1..Len(pe.graph.edge_index) |->
                            IF pe.graph.edge_attr[k][j] = c THEN 1 ELSE 0])

(* --------------- apply_to over the three splits: SpecSplits ----------- *)
\* the splits the training script encodes
AllSplits == {"train", "val", "test"}
SplitPaths == {PathOf(SavePath, s) : s \in AllSplits}
\* the split a path belongs to
SplitOf(q) == q[2]

\* datasets of at most one graph: each split's file can differ from the others'
SplitDatasets == {d \in Datasets : Len(d) <= 1}

\* two caching encoders and the encoder without a savepath
SplitEncoders ==
    {DiffusionEncoding(SavePath, <<1, 1>>, FALSE, FALSE, FALSE, PoolCards),
     AdjEncoding(SavePath, TRUE)}
        \cup {FullEncoding(None, zd) : zd \in BOOLEAN}

InitSplits ==
    /\ files = [q \in SplitPaths |-> Absent]
    /\ dataset \in {NewObject(d) : d \in SplitDatasets}
    /\ last = Idle
    /\ wrote = [q \in SplitPaths |-> NoWriter]
    /\ empty_raises = FALSE
    /\ pe = NoCall
    /\ procs = [p \in Procs |-> IdleProc]

\* the caller builds the dataset object of a split
NewSplitDataset ==
    /\ \E d \in SplitDatasets : dataset' = NewObject(d)
    /\ last' = [Idle EXCEPT !.op = "new_dataset"]
    /\ UNCHANGED <<files, wrote, empty_raises, pe, procs>>

\* pos_encoder.apply_to(dataset, split) for any of the three splits
ApplyToSplit ==
    \E enc \in SplitEncoders, split \in AllSplits :
        \E r \in {apply_to(enc, dataset, split, files, empty_raises)} :
           /\ dataset' = r.ds
           /\ files' = r.fs
           /\ last' = [op |-> "apply_to", enc |-> enc, split |-> split, ok |-> r.ok,
                       computed |-> r.computed,
                       pre_file |-> IF enc.savepath = None THEN Absent
                                    ELSE files[PathOf(enc.savepath, split)]]
           /\ wrote' = IF r.fs = files THEN wrote
                       ELSE [wrote EXCEPT ![PathOf(enc.savepath, split)] =
                                [written |-> TRUE, enc |-> enc, graphs |-> dataset.graphs,
                                 pe_list |-> r.ds.pe_list]]
           /\ UNCHANGED <<empty_raises, pe, procs>>

NextSplits == NewSplitDataset \/ ApplyToSplit \/ Truncate

SpecSplits == InitSplits /\ [][NextSplits]_vars

(* ----------------------- the race on the file ------------------------- *)
\* a process has gone through open and pickle.dump and closed the file
WroteFile(p) == procs[p].pc = "done" /\ procs[p].wrote

\* C11: once one of two racing processes has completely written
\* {savepath}.{split}, the other neither truncates nor rewrites that file.
NoOverwriteUnderRace ==
    [][(\E p \in Procs : WroteFile(p)) => files' = files]_vars

(* ------------------------- the key of the cache ----------------------- *)
\* the files with every file of another split than s taken away
OnlySplit(fs, s) == [q \in DOMAIN fs |-> IF SplitOf(q) = s THEN fs[q] ELSE Absent]
\* no file at all
NoFiles(fs) == [q \in DOMAIN fs |-> Absent]

\* C12: a call for a split changes no file of another split and does what it
\* would do were the other splits' files not there; without a savepath it changes
\* no file, does what it would do with no file anywhere, and computes one
\* encoding per graph.
SplitKeyed ==
    [][last'.op = "apply_to" =>
        /\ \A q \in DOMAIN files : SplitOf(q) # last'.split => files'[q] = files[q]
        /\ \E alone \in {apply_to(last'.enc, dataset, last'.split,
                                  OnlySplit(files, last'.split), empty_raises)} :
              /\ dataset' = alone.ds
              /\ last'.ok = alone.ok
              /\ last'.computed = alone.computed
        /\ last'.enc.savepath = None =>
              /\ files' = files
              /\ last'.ok
              /\ last'.computed = Len(dataset.graphs)
              /\ dataset' = apply_to(last'.enc, dataset, last'.split, NoFiles(files),
                                     empty_raises).ds]_vars

\* a call for 'val' computed and wrote its own file while the file of 'train'
\* was there, damaged, and the file of 'test' was not
SplitKeyedWitness ==
    /\ Called /\ last.ok
    /\ last.split = "val"
    /\ last.enc.savepath # None
    /\ ~last.pre_file.exists
    /\ last.computed = 1
    /\ DOMAIN files = SplitPaths
    /\ files[<<SavePath, "val">>].exists
    /\ files[<<SavePath, "train">>].exists
    /\ ~Loads(files[<<SavePath, "train">>].bytes).ok
    /\ ~files[<<SavePath, "test">>].exists

(* ------------------------ pe_list after a call ------------------------ *)
\* C13: a call that returns normally leaves pe_list with one entry per graph of
\* the dataset, whatever pe_list held before: entry i is the encoding of graph i
\* on a miss and entry i of the cached list on a hit, masked under zero_diag.
PeListReplaced ==
    (Called /\ last.ok) =>
        /\ Len(dataset.pe_list) = Len(dataset.graphs)
        /\ \A i \in 1..Len(dataset.graphs) :
              dataset.pe_list[i] =
                  Masked(last.enc, IF Cached THEN PreList.value[i] ELSE OwnList[i])

\* a hit on a list longer than the dataset, written for other graphs
PeListReplacedWitness ==
    /\ Cached /\ last.ok
    /\ dataset.graphs # <<>>
    /\ Len(PreList.value) > Len(dataset.graphs)
    /\ wrote[CallPath].written
    /\ wrote[CallPath].graphs # dataset.graphs
    /\ Len(dataset.pe_list) = Len(dataset.graphs)
====
